---------------------------- MODULE Spec2Model ----------------------------
(***************************************************************************)
(* A model of package rw (src/rw.go): small helpers around files, CSV,     *)
(* JSON/XML formatting, lists, standard input and a tab-aligned table.     *)
(*                                                                         *)
(* Go strings are modelled as sequences of one-character strings, so that  *)
(* trimming, quoting, splitting and joining are computed character by      *)
(* character.  The process runs one helper at a time (the package has no   *)
(* goroutines); pc is the position inside the running helper.              *)
(***************************************************************************)
EXTENDS Integers, Sequences, FiniteSets, TLC

VARIABLES
    pc,         \* "idle", a position inside a helper, or "crashed"
    call,       \* the helper that runs or ran last, with its arguments
    ret,        \* what the last finished helper returned: a list of texts
    crashed,    \* TRUE once a panic has terminated the process
    stdin,      \* the outcomes the next reads of standard input will yield
    consumed,   \* the outcomes ReadLinesFromStdin has read so far (history)
    extraReads, \* reads ReadLinesFromStdin made after stdin was exhausted
    skip,       \* ReadLinesFromStdin: local skip
    lines,      \* ReadLinesFromStdin: named result lines
    disk,       \* absolute path -> [exists, data]
    disk0,      \* the disk before the first call (history)
    handles,    \* open file handles: [by, fp]
    r,          \* ReadCsvFile: the csv.Reader (unread bytes, FieldsPerRecord)
    raw,        \* ReadCsvFile: named result raw
    wrote       \* absolute path -> what CommaSep wrote there (history)

vars == <<pc, call, ret, crashed, stdin, consumed, extraReads, skip, lines,
          disk, disk0, handles, r, raw, wrote>>

stdinVars == <<stdin, consumed, extraReads, skip, lines>>
fileVars  == <<disk, disk0, handles, r, raw, wrote>>

-----------------------------------------------------------------------------
(* Bounds of the model.                                                    *)

MaxList == 2        \* longest list handed to a list helper
MaxTabTokens == 5   \* size of a table handed to TabFlex
MaxStream == 4      \* reads of standard input before it is exhausted
MaxCsvTokens == 4   \* size of a table handed to CommaSep
MaxFileLen == 5     \* bytes of a file that exists before the first call

-----------------------------------------------------------------------------
(* Sequences.                                                              *)

Range(s) == {s[i] : i \in DOMAIN s}

\* The sequences over S of length n, and of length at most n.
RECURSIVE SeqsOfLen(_, _)
SeqsOfLen(S, n) ==
    IF n = 0 THEN {<<>>}
    ELSE {Append(p, x) : p \in SeqsOfLen(S, n - 1), x \in S}

SeqsUpTo(S, n) == UNION {SeqsOfLen(S, k) : k \in 0..n}

NoDup(s) == \A i, j \in DOMAIN s : s[i] = s[j] => i = j

RECURSIVE Flatten(_)
Flatten(ss) == IF ss = <<>> THEN <<>> ELSE Head(ss) \o Flatten(Tail(ss))

\* The index of the first element of s at or after i that lies in set, or 0.
RECURSIVE IndexAnyFrom(_, _, _)
IndexAnyFrom(s, set, i) ==
    IF i > Len(s) THEN 0
    ELSE IF s[i] \in set THEN i
    ELSE IndexAnyFrom(s, set, i + 1)

\* The pieces of s between the separators sep: one more piece than separators.
RECURSIVE SplitOn(_, _)
SplitOn(s, sep) ==
    LET i == IndexAnyFrom(s, {sep}, 1) IN
    IF i = 0 THEN <<s>>
    ELSE <<SubSeq(s, 1, i - 1)>> \o SplitOn(SubSeq(s, i + 1, Len(s)), sep)

\* A table drawn as one token sequence: RS ends a record, FS a field.  With
\* nilEmpty a record without tokens has no field at all (an empty slice)
\* instead of one empty field.
FS == "<FS>"
RS == "<RS>"

DecodeRecord(seg, nilEmpty) ==
    IF seg = <<>> /\ nilEmpty THEN <<>> ELSE SplitOn(seg, FS)

DecodeTable(toks, nilEmpty) ==
    LET segs == SplitOn(toks, RS)
        recs == [i \in DOMAIN segs |-> DecodeRecord(segs[i], nilEmpty)]
    IN [headers |-> Head(recs), values |-> Tail(recs)]

-----------------------------------------------------------------------------
(* strings                                                                 *)

\* strings.TrimRight(s, cutset): drops every trailing character of cutset.
RECURSIVE TrimRight(_, _)
TrimRight(s, cutset) ==
    IF s # <<>> /\ s[Len(s)] \in cutset
    THEN TrimRight(SubSeq(s, 1, Len(s) - 1), cutset)
    ELSE s

\* strings.TrimSpace(s) on the white space of the model's alphabet.
WhiteSpace == {" ", "\t", "\n", "\r"}

RECURSIVE TrimLeft(_, _)
TrimLeft(s, cutset) ==
    IF s # <<>> /\ Head(s) \in cutset THEN TrimLeft(Tail(s), cutset) ELSE s

TrimSpace(s) == TrimLeft(TrimRight(s, WhiteSpace), WhiteSpace)

\* strings.Contains(s, substr)
Contains(s, substr) ==
    \E i \in 1..(Len(s) - Len(substr) + 1) :
        SubSeq(s, i, i + Len(substr) - 1) = substr

\* strings.Repeat(c, n) for a one-character string c.
Repeat(c, n) == [i \in 1..n |-> c]

\* len(s) of a Go string: its bytes.  "U+00E9" stands for a character that
\* UTF-8 encodes in two bytes.
Utf8Len(c) == IF c = "U+00E9" THEN 2 ELSE 1

RECURSIVE GoLen(_)
GoLen(s) == IF s = <<>> THEN 0 ELSE Utf8Len(Head(s)) + GoLen(Tail(s))

-----------------------------------------------------------------------------
(* List helpers.                                                           *)

Strs == {<<>>, <<"a">>, <<"a", ",">>, <<" ">>}

StrLists == SeqsUpTo(Strs, MaxList)

RECURSIVE ExistsInList(_, _)
ExistsInList(query, list) ==
    IF list = <<>> THEN FALSE
    ELSE IF Head(list) = query THEN TRUE
    ELSE ExistsInList(query, Tail(list))

\* The loop of AppendIfUnique from index i on.
RECURSIVE AppendIfUniqueFrom(_, _, _)
AppendIfUniqueFrom(sl, val, i) ==
    IF i > Len(sl) THEN Append(sl, val)
    ELSE IF sl[i] = val THEN sl
    ELSE AppendIfUniqueFrom(sl, val, i + 1)

AppendAlways(sl, val) == Append(sl, val)

AppendIfUnique(sl, val) == AppendIfUniqueFrom(sl, val, 1)

\* The loop of ConcatListNicely: res grows by "r, " for each non-empty r.
RECURSIVE ConcatLoop(_, _)
ConcatLoop(list, res) ==
    IF list = <<>> THEN res
    ELSE LET e == Head(list) IN
         ConcatLoop(Tail(list),
                    IF e # <<>> THEN res \o e \o <<",", " ">> ELSE res)

ConcatListNicely(list) == TrimRight(ConcatLoop(list, <<>>), {",", " "})

-----------------------------------------------------------------------------
(* Formatting helpers.  A Go value is [type, val]; a string that holds XML *)
(* is given as its token sequence (the lexing is not modelled).  A text    *)
(* returned is a sequence of lines.                                        *)

XmlTokens == { [kind |-> "start", name |-> "a"], [kind |-> "end", name |-> "a"],
               [kind |-> "end", name |-> "b"],   [kind |-> "chardata", name |-> "t"] }

GoValues ==
    { [type |-> "string", val |-> d] : d \in SeqsUpTo(XmlTokens, MaxList) }
    \cup { [type |-> "int", val |-> <<>>], [type |-> "chan", val |-> <<>>] }

\* json.Marshal / json.MarshalIndent: a channel cannot be serialised.
Marshal(v, indent) ==
    IF v.type = "chan"
    THEN [err |-> "json: unsupported type: chan", out |-> <<>>]
    ELSE [err |-> "nil", out |-> <<indent \o v.type>>]

JsonPretty(v) ==
    LET m == Marshal(v, "    ") IN IF m.err # "nil" THEN <<m.err>> ELSE m.out

JsonFlat(v) ==
    LET m == Marshal(v, "") IN IF m.err # "nil" THEN <<m.err>> ELSE m.out

RECURSIVE Indent(_)
Indent(depth) == IF depth = 0 THEN "" ELSE "    " \o Indent(depth - 1)

XmlText(token) ==
    CASE token.kind = "start" -> "<" \o token.name \o ">"
      [] token.kind = "end" -> "</" \o token.name \o ">"
      [] OTHER -> token.name

\* formatXML: decoder.Token and encoder.EncodeToken, token by token; stk is
\* the decoder's stack of open elements, b the indented lines emitted.
RECURSIVE formatXMLLoop(_, _, _)
formatXMLLoop(data, stk, b) ==
    IF data = <<>>
    THEN IF stk # <<>>
         THEN [err |-> "XML syntax error: unexpected EOF", out |-> <<>>]
         ELSE [err |-> "nil", out |-> b]
    ELSE LET token == Head(data) IN
         CASE token.kind = "start" ->
                formatXMLLoop(Tail(data), <<token.name>> \o stk,
                              Append(b, Indent(Len(stk)) \o XmlText(token)))
           [] token.kind = "end" ->
                IF stk = <<>>
                THEN [err |-> "XML syntax error: unexpected end element",
                      out |-> <<>>]
                ELSE IF Head(stk) # token.name
                THEN [err |-> "XML syntax error: element closed by another",
                      out |-> <<>>]
                ELSE formatXMLLoop(Tail(data), Tail(stk),
                         Append(b, Indent(Len(stk) - 1) \o XmlText(token)))
           [] OTHER ->
                formatXMLLoop(Tail(data), stk,
                              Append(b, Indent(Len(stk)) \o XmlText(token)))

formatXML(data) == formatXMLLoop(data, <<>>, <<>>)

\* XmlPretty: v.(string) is an unchecked type assertion, which panics on any
\* other dynamic type.
XmlPretty(v) ==
    IF v.type # "string" THEN [panic |-> TRUE, out |-> <<>>]
    ELSE LET f == formatXML(v.val) IN
         [panic |-> FALSE, out |-> IF f.err # "nil" THEN <<f.err>> ELSE f.out]

-----------------------------------------------------------------------------
(* TabFlex.  The text is what TabFlex hands to the tabwriter: each cell is *)
(* ended by a tab, each line by a newline.                                 *)

TabChars == {"a", "U+00E9"}

TabTokenSeqs == SeqsUpTo(TabChars \cup {FS, RS}, MaxTabTokens)

\* fs(p): as many dashes as p has bytes.
fs(p) == Repeat("-", GoLen(p))

TabHeaderLine(headers) ==
    Flatten([i \in DOMAIN headers |-> headers[i] \o <<"\t">>]) \o <<"\n">>

TabDashLine(headers) ==
    Flatten([i \in DOMAIN headers |-> fs(headers[i]) \o <<"\t">>]) \o <<"\n">>

TabDataLine(headers, v) ==
    Flatten([i \in DOMAIN headers |->
                (IF Len(v) <= i - 1 THEN <<>> ELSE v[i]) \o <<"\t">>])
    \o <<"\n">>

TabFlex(headers, values) ==
    TabHeaderLine(headers)
    \o TabDashLine(headers)
    \o Flatten([k \in DOMAIN values |-> TabDataLine(headers, values[k])])
    \o TabDashLine(headers)

-----------------------------------------------------------------------------
(* Standard input.  A read yields a line (its bytes without the line end), *)
(* end-of-stream, or a failure; once stdin is exhausted every read yields  *)
(* end-of-stream.                                                          *)

StdinLines == {<<>>, <<"x">>, <<"y">>, <<"\r">>}

ReadOutcomes ==
    { [kind |-> "line", data |-> l] : l \in StdinLines }
    \cup { [kind |-> "eof", data |-> <<>>], [kind |-> "err", data |-> <<>>] }

EOF == [kind |-> "eof", data |-> <<>>]

\* reader.ReadLine()
ReadLine(in) == IF in = <<>> THEN EOF ELSE Head(in)

Advance(in) == IF in = <<>> THEN in ELSE Tail(in)

\* ReadFromStdin
ReadFromStdin(a) ==
    IF a.kind = "eof" THEN [panic |-> FALSE, out |-> <<>>]
    ELSE IF a.kind = "err" THEN [panic |-> TRUE, out |-> <<>>]
    ELSE [panic |-> FALSE, out |-> TrimRight(a.data, {"\r", "\n"})]

\* One pass of the loop of ReadLinesFromStdin on the read outcome a: the new
\* skip and lines, and whether the loop is left.
ReadLinesBreakNever(sk, ls, a) ==
    IF a.kind = "eof" THEN [skip |-> TRUE, lines |-> ls, done |-> FALSE]
    ELSE IF a.kind = "err" THEN [skip |-> sk, lines |-> ls, done |-> TRUE]
    ELSE LET line == TrimRight(a.data, {"\r", "\n"}) IN
         IF line = <<>>
         THEN [skip |-> TRUE, lines |-> ls, done |-> sk]
         ELSE [skip |-> FALSE, lines |-> Append(ls, line), done |-> FALSE]

ReadLinesNoReset(sk, ls, a) ==
    IF a.kind = "eof" THEN [skip |-> TRUE, lines |-> ls, done |-> sk]
    ELSE IF a.kind = "err" THEN [skip |-> sk, lines |-> ls, done |-> TRUE]
    ELSE LET line == TrimRight(a.data, {"\r", "\n"}) IN
         IF line = <<>>
         THEN [skip |-> TRUE, lines |-> ls, done |-> sk]
         ELSE [skip |-> sk, lines |-> Append(ls, line), done |-> FALSE]

ReadLinesPass(sk, ls, a) ==
    IF a.kind = "eof" THEN [skip |-> TRUE, lines |-> ls, done |-> sk]
    ELSE IF a.kind = "err" THEN [skip |-> sk, lines |-> ls, done |-> TRUE]
    ELSE LET line == TrimRight(a.data, {"\r", "\n"}) IN
         IF line = <<>>
         THEN [skip |-> TRUE, lines |-> ls, done |-> sk]
         ELSE [skip |-> FALSE, lines |-> Append(ls, line), done |-> FALSE]


-----------------------------------------------------------------------------
(* The disk.  A file name is resolved against the working directory; the   *)
(* environment decides, call by call, whether Getwd, Stat, Create and Open *)
(* succeed (a permission may be missing), within what the disk allows.     *)

FileNames == {"a.csv", "./a.csv", "b.csv"}

AbsPaths == {"/wd/a.csv", "/wd/b.csv"}

Absent == [exists |-> FALSE, data |-> <<>>]

File(data) == [exists |-> TRUE, data |-> data]

EmptyDisk == [p \in AbsPaths |-> Absent]

NoTable == [ok |-> FALSE, headers |-> <<>>, values |-> <<>>]

NothingWritten == [p \in AbsPaths |-> NoTable]

\* filepath.Abs(fn) when the working directory is known.
Abs(fn) == IF fn = "b.csv" THEN "/wd/b.csv" ELSE "/wd/a.csv"

\* os.Stat(fp): nil, a does-not-exist error, or another error.
StatOutcomes(d, fp) ==
    IF d[fp].exists THEN {"ok", "other"} ELSE {"notexist", "other"}

\* What the system calls of a helper that creates fn, or of one that reads
\* it, may answer: os.Getwd of filepath.Abs, os.Stat, os.Create, os.Open.
CreateEnvs(d, fn) ==
    [wd : BOOLEAN, stat : StatOutcomes(d, Abs(fn)), create : BOOLEAN]

ReadEnvs(d, fn) ==
    [wd : BOOLEAN, stat : StatOutcomes(d, Abs(fn)), open : BOOLEAN]

\* FileExists, on the outcome of its os.Stat.
FileExistsInverted(stat) ==
    IF stat # "ok" THEN stat = "notexist" ELSE TRUE

FileExists(stat) ==
    IF stat # "ok" THEN stat # "notexist" ELSE TRUE

\* ValidateFilepath: the absolute path, or "".
ValidateFilepath(fn, e) ==
    IF ~e.wd THEN ""
    ELSE IF e.stat # "ok" THEN ""
    ELSE Abs(fn)

\* os.Open(fp) succeeds.
CanOpen(fp, e, d) == fp # "" /\ d[fp].exists /\ e.open

-----------------------------------------------------------------------------
(* encoding/csv, with the Writer and Reader as csv.NewWriter and           *)
(* csv.NewReader leave them: Comma ',', no UseCRLF, no Comment, no         *)
(* LazyQuotes, no TrimLeadingSpace, FieldsPerRecord 0.  Reads of the file  *)
(* itself do not fail.                                                     *)

CsvChars == {"a", ",", "\"", "\n", "\r", " "}

\* Writer.fieldNeedsQuotes
NeverNeedsQuotes(field) == FALSE

fieldNeedsQuotes(field) ==
    IF field = <<>> THEN FALSE
    ELSE IF field = <<"\\", ".">> THEN TRUE
    ELSE IF \E i \in DOMAIN field : field[i] \in {"\n", "\r", "\"", ","}
    THEN TRUE
    ELSE field[1] \in WhiteSpace

\* The inside of a quoted field: a quote is doubled, the rest is copied.
RECURSIVE QuoteBody(_)
QuoteBody(field) ==
    IF field = <<>> THEN <<>>
    ELSE (IF Head(field) = "\"" THEN <<"\"", "\"">> ELSE <<Head(field)>>)
         \o QuoteBody(Tail(field))

WriteField(field) ==
    IF ~fieldNeedsQuotes(field) THEN field
    ELSE <<"\"">> \o QuoteBody(field) \o <<"\"">>

\* Writer.Write(record): the fields with commas between, then a newline.
Write(record) ==
    Flatten([n \in DOMAIN record |->
                (IF n > 1 THEN <<",">> ELSE <<>>) \o WriteField(record[n])])
    \o <<"\n">>

lengthNL(b) == IF b # <<>> /\ b[Len(b)] = "\n" THEN 1 ELSE 0

\* Reader.readLine: the next line with its newline, a trailing CR before the
\* end of the file dropped and CR LF made LF.
readLine(buf) ==
    LET i == IndexAnyFrom(buf, {"\n"}, 1)
        slice == IF i = 0 THEN buf ELSE SubSeq(buf, 1, i)
        atEOF == i = 0
        l1 == IF atEOF /\ slice # <<>> /\ slice[Len(slice)] = "\r"
              THEN SubSeq(slice, 1, Len(slice) - 1)
              ELSE slice
        n == Len(l1)
    IN [line |-> IF n >= 2 /\ l1[n - 1] = "\r" /\ l1[n] = "\n"
                 THEN SubSeq(l1, 1, n - 2) \o <<"\n">>
                 ELSE l1,
        err |-> IF atEOF /\ slice = <<>> THEN "EOF" ELSE "nil",
        rest |-> IF i = 0 THEN <<>> ELSE SubSeq(buf, i + 1, Len(buf))]

\* The first loop of readRecord: empty lines are skipped.
RECURSIVE NextLine(_)
NextLine(buf) ==
    LET l == readLine(buf) IN
    IF l.err = "nil" /\ Len(l.line) = lengthNL(l.line)
    THEN NextLine(l.rest)
    ELSE l

\* The parseField loop of readRecord.  line is what is left of the current
\* line, rest the bytes after it, fields the fields completed; inQuotes
\* tells that the bytes continue a quoted field whose text so far is cur.
RECURSIVE parseField(_, _, _, _, _)
parseField(line, rest, fields, inQuotes, cur) ==
    IF ~inQuotes
    THEN IF line = <<>> \/ line[1] # "\""
         THEN \* Non-quoted string field
              LET i == IndexAnyFrom(line, {","}, 1)
                  field == IF i > 0 THEN SubSeq(line, 1, i - 1)
                           ELSE SubSeq(line, 1, Len(line) - lengthNL(line))
              IN IF \E j \in DOMAIN field : field[j] = "\""
                 THEN [fields |-> fields, err |-> "ErrBareQuote",
                       rest |-> rest]
                 ELSE IF i > 0
                 THEN parseField(SubSeq(line, i + 1, Len(line)), rest,
                                 Append(fields, field), FALSE, <<>>)
                 ELSE [fields |-> Append(fields, field), err |-> "nil",
                       rest |-> rest]
         ELSE \* Quoted string field
              parseField(Tail(line), rest, fields, TRUE, <<>>)
    ELSE LET i == IndexAnyFrom(line, {"\""}, 1) IN
         IF i > 0
         THEN \* Hit next quote.
              LET got == cur \o SubSeq(line, 1, i - 1)
                  after == SubSeq(line, i + 1, Len(line))
              IN IF after # <<>> /\ after[1] = "\""
                 THEN parseField(Tail(after), rest, fields, TRUE,
                                 Append(got, "\""))
                 ELSE IF after # <<>> /\ after[1] = ","
                 THEN parseField(Tail(after), rest, Append(fields, got),
                                 FALSE, <<>>)
                 ELSE IF lengthNL(after) = Len(after)
                 THEN [fields |-> Append(fields, got), err |-> "nil",
                       rest |-> rest]
                 ELSE [fields |-> fields, err |-> "ErrQuote", rest |-> rest]
         ELSE IF Len(line) > 0
         THEN \* Hit end of line (copy all data so far).
              LET l == readLine(rest) IN
              parseField(l.line, l.rest, fields, TRUE, cur \o line)
         ELSE \* Abrupt end of file.
              [fields |-> fields, err |-> "ErrQuote", rest |-> rest]

\* Reader.Read on the reader rd = [buf, fpr]: the record, the error and the
\* reader afterwards.  A record with another number of fields than the first
\* is returned together with ErrFieldCount.
Read(rd) ==
    LET l == NextLine(rd.buf) IN
    IF l.err = "EOF"
    THEN [record |-> <<>>, err |-> "EOF",
          r |-> [buf |-> l.rest, fpr |-> rd.fpr]]
    ELSE LET p == parseField(l.line, l.rest, <<>>, FALSE, <<>>)
             dst == p.fields
         IN [record |-> dst,
             err |-> IF rd.fpr > 0 /\ Len(dst) # rd.fpr /\ p.err = "nil"
                     THEN "ErrFieldCount" ELSE p.err,
             r |-> [buf |-> p.rest,
                    fpr |-> IF rd.fpr = 0 THEN Len(dst) ELSE rd.fpr]]

-----------------------------------------------------------------------------
(* CSV files.                                                              *)

\* One pass of the loop of ReadCsvFile on what r.Read() returned.
RcfSkipAndContinue(rawSoFar, res) ==
    IF res.err = "EOF" THEN [raw |-> rawSoFar, done |-> TRUE]
    ELSE IF res.err # "nil" THEN [raw |-> rawSoFar, done |-> FALSE]
    ELSE [raw |-> Append(rawSoFar, res.record), done |-> FALSE]

RcfPass(rawSoFar, res) ==
    IF res.err = "EOF" THEN [raw |-> rawSoFar, done |-> TRUE]
    ELSE IF res.err # "nil" THEN [raw |-> rawSoFar, done |-> TRUE]
    ELSE [raw |-> Append(rawSoFar, res.record), done |-> FALSE]

\* NewCsvFile: whether a writer is returned, on which file, and the disk
\* afterwards (os.Create makes the file empty).
NewCsvFile(fn, e, d) ==
    IF ~e.wd THEN [w |-> FALSE, fp |-> "", disk |-> d]
    ELSE LET fp == Abs(fn) IN
         IF FileExists(e.stat) THEN [w |-> FALSE, fp |-> fp, disk |-> d]
         ELSE IF ~e.create THEN [w |-> FALSE, fp |-> fp, disk |-> d]
         ELSE [w |-> TRUE, fp |-> fp, disk |-> [d EXCEPT ![fp] = File(<<>>)]]

\* What CommaSep hands to the writer and Flush puts into the file.  (The
\* writer buffers 4096 bytes, so no Write fails before Flush.)
CsvText(headers, values) ==
    Write(headers) \o Flatten([i \in DOMAIN values |-> Write(values[i])])

CommaSep(fn, headers, values, e, d) ==
    LET cw == NewCsvFile(fn, e, d) IN
    IF ~cw.w THEN cw
    ELSE [w |-> TRUE, fp |-> cw.fp,
          disk |-> [cw.disk EXCEPT ![cw.fp] = File(CsvText(headers, values))]]

-----------------------------------------------------------------------------
(* Line-oriented files.                                                    *)

dropCR(data) ==
    IF data # <<>> /\ data[Len(data)] = "\r"
    THEN SubSeq(data, 1, Len(data) - 1)
    ELSE data

\* The tokens of a bufio.Scanner with bufio.ScanLines.
RECURSIVE ScanLines(_)
ScanLines(data) ==
    IF data = <<>> THEN <<>>
    ELSE LET i == IndexAnyFrom(data, {"\n"}, 1) IN
         IF i = 0 THEN <<dropCR(data)>>
         ELSE <<dropCR(SubSeq(data, 1, i - 1))>>
              \o ScanLines(SubSeq(data, i + 1, Len(data)))

\* The loop of LoadLines.
LoadLines(data) ==
    LET toks == ScanLines(data) IN [k \in DOMAIN toks |-> TrimSpace(toks[k])]

\* A line number as a text.
Digits == <<"0", "1", "2", "3", "4", "5", "6", "7", "8", "9">>

Itoa(n) == <<Digits[n + 1]>>

\* The loop of LineInFileContains from line k on: the numbers and the lines
\* that contain search.
RECURSIVE ContainsFrom(_, _, _)
ContainsFrom(allLines, search, k) ==
    IF k > Len(allLines) THEN [i |-> <<>>, lines |-> <<>>]
    ELSE LET more == ContainsFrom(allLines, search, k + 1) IN
         IF Contains(allLines[k], search)
         THEN [i |-> <<Itoa(k - 1)>> \o more.i,
               lines |-> <<allLines[k]>> \o more.lines]
         ELSE more

LineInFileContains(allLines, search) == ContainsFrom(allLines, search, 1)

-----------------------------------------------------------------------------
(* The state every specification starts from, but for its inputs.          *)

NoCall == [op |-> "none"]

\* A result is kept as a list of texts: a text alone as a list of one, a
\* boolean as its name.
One(text) == <<text>>

Bool(b) == <<<<IF b THEN "true" ELSE "false">>>>

NoReader == [buf |-> <<>>, fpr |-> 0]

InitProcess ==
    /\ pc = "idle"
    /\ call = NoCall
    /\ ret = <<>>
    /\ crashed = FALSE
    /\ consumed = <<>>
    /\ extraReads = 0
    /\ skip = FALSE
    /\ lines = <<>>
    /\ handles = {}
    /\ r = NoReader
    /\ raw = <<>>

\* A helper without steps of its own: called and returned in one action.
Returns(c, v) ==
    /\ pc = "idle"
    /\ ~crashed
    /\ call' = c
    /\ ret' = v
    /\ pc' = "idle"
    /\ crashed' = FALSE

\* A panic nobody recovers: the process is gone.
Panics(c) ==
    /\ pc = "idle"
    /\ ~crashed
    /\ call' = c
    /\ ret' = <<>>
    /\ pc' = "crashed"
    /\ crashed' = TRUE

-----------------------------------------------------------------------------------------------------------------------------------------------------
(* Calls of the list, formatting and table helpers.  These helpers keep no *)
(* state between calls, so a behaviour makes one call on inputs of its     *)
(* choice; AppendIfUnique and ReadFromStdin may be called again, on the    *)
(* list returned and on what is left of standard input.                    *)

First == call.op = "none"

DoExistsInList ==
    \E query \in Strs, list \in StrLists :
        /\ First
        /\ Returns([op |-> "ExistsInList", query |-> query, list |-> list],
                   Bool(ExistsInList(query, list)))
        /\ UNCHANGED <<stdinVars, fileVars>>

\* nodup records whether the chain of calls began with a duplicate-free list.
DoAppendIfUnique ==
    \E val \in Strs, sl \in StrLists :
        /\ First
        /\ Returns([op |-> "AppendIfUnique", sl |-> sl, val |-> val,
                    nodup |-> NoDup(sl)],
                   AppendIfUnique(sl, val))
        /\ UNCHANGED <<stdinVars, fileVars>>

DoAppendIfUniqueAgain ==
    \E val \in Strs :
        /\ call.op = "AppendIfUnique"
        /\ Returns([op |-> "AppendIfUnique", sl |-> ret, val |-> val,
                    nodup |-> call.nodup],
                   AppendIfUnique(ret, val))
        /\ UNCHANGED <<stdinVars, fileVars>>

DoConcatListNicely ==
    \E list \in StrLists :
        /\ First
        /\ Returns([op |-> "ConcatListNicely", list |-> list],
                   One(ConcatListNicely(list)))
        /\ UNCHANGED <<stdinVars, fileVars>>

DoTabFlex ==
    \E toks \in TabTokenSeqs, nilEmpty \in BOOLEAN :
        LET t == DecodeTable(toks, nilEmpty) IN
        /\ First
        /\ Returns([op |-> "TabFlex", headers |-> t.headers,
                    values |-> t.values],
                   One(TabFlex(t.headers, t.values)))
        /\ UNCHANGED <<stdinVars, fileVars>>

DoJsonPretty ==
    \E v \in GoValues :
        /\ First
        /\ Returns([op |-> "JsonPretty", v |-> v], One(JsonPretty(v)))
        /\ UNCHANGED <<stdinVars, fileVars>>

DoJsonFlat ==
    \E v \in GoValues :
        /\ First
        /\ Returns([op |-> "JsonFlat", v |-> v], One(JsonFlat(v)))
        /\ UNCHANGED <<stdinVars, fileVars>>

DoXmlPretty ==
    \E v \in GoValues :
        LET x == XmlPretty(v) IN
        /\ First
        /\ IF x.panic
           THEN Panics([op |-> "XmlPretty", v |-> v])
           ELSE Returns([op |-> "XmlPretty", v |-> v], One(x.out))
        /\ UNCHANGED <<stdinVars, fileVars>>

DoReadFromStdin ==
    LET a == ReadLine(stdin)
        x == ReadFromStdin(a)
    IN /\ First \/ (call.op = "ReadFromStdin" /\ stdin # <<>>)
       /\ IF x.panic
          THEN Panics([op |-> "ReadFromStdin", a |-> a])
          ELSE Returns([op |-> "ReadFromStdin", a |-> a], One(x.out))
       /\ stdin' = Advance(stdin)
       /\ UNCHANGED <<consumed, extraReads, skip, lines, fileVars>>

-----------------------------------------------------------------------------
(* ReadLinesFromStdin, one read of the loop per step.                      *)

MaxExtraReads == 3  \* reads past the end of stdin the model follows

StartReadLines ==
    /\ pc = "idle"
    /\ call = NoCall
    /\ call' = [op |-> "ReadLinesFromStdin", input |-> stdin]
    /\ pc' = "rl_loop"
    /\ skip' = FALSE
    /\ lines' = <<>>
    /\ UNCHANGED <<ret, crashed, stdin, consumed, extraReads, fileVars>>

ReadLinesStep ==
    /\ pc = "rl_loop"
    /\ extraReads < MaxExtraReads
    /\ LET a == ReadLine(stdin)
           p == ReadLinesPass(skip, lines, a)
       IN /\ consumed' = Append(consumed, a)
          /\ skip' = p.skip
          /\ lines' = p.lines
          /\ pc' = IF p.done THEN "rl_return" ELSE "rl_loop"
    /\ extraReads' = IF stdin = <<>> THEN extraReads + 1 ELSE extraReads
    /\ stdin' = Advance(stdin)
    /\ UNCHANGED <<call, ret, crashed, fileVars>>

ReadLinesReturn ==
    /\ pc = "rl_return"
    /\ ret' = lines
    /\ pc' = "done"
    /\ UNCHANGED <<call, crashed, stdinVars, fileVars>>


-----------------------------------------------------------------------------
(* Calls of the file helpers.  when tells whether the specification lets   *)
(* the helper be called now; names and tables are the arguments it draws.  *)

Handle(by, fp) == [by |-> by, fp |-> fp]

\* ReadCsvFile up to its loop.  The file stays open: nothing closes it.
ReadCsvFileOpen(when, names) ==
    /\ when
    /\ pc = "idle"
    /\ \E fn \in names : \E e \in ReadEnvs(disk, fn) :
        LET fp == ValidateFilepath(fn, e)
            ok == CanOpen(fp, e, disk)
        IN /\ call' = [op |-> "ReadCsvFile", fn |-> fn, fp |-> fp,
                       opened |-> ok]
           /\ raw' = <<>>
           /\ ret' = <<>>
           /\ IF ok
              THEN /\ r' = [buf |-> disk[fp].data, fpr |-> 0]
                   /\ handles' = handles \cup {Handle("ReadCsvFile", fp)}
                   /\ pc' = "rcf_loop"
              ELSE /\ r' = NoReader
                   /\ handles' = handles
                   /\ pc' = "idle"
           /\ UNCHANGED <<crashed, stdinVars, disk, disk0, wrote>>

\* One r.Read() of the loop of ReadCsvFile, and the return after the last.
ReadCsvFileRead ==
    /\ pc = "rcf_loop"
    /\ LET res == Read(r)
           p == RcfPass(raw, res)
       IN /\ r' = res.r
          /\ raw' = p.raw
          /\ ret' = IF p.done THEN p.raw ELSE ret
          /\ pc' = IF p.done THEN "idle" ELSE "rcf_loop"
    /\ UNCHANGED <<call, crashed, stdinVars, disk, disk0, handles, wrote>>

DoNewCsvFile(when, names) ==
    /\ when
    /\ pc = "idle"
    /\ \E fn \in names : \E e \in CreateEnvs(disk, fn) :
        LET cw == NewCsvFile(fn, e, disk) IN
        /\ call' = [op |-> "NewCsvFile", fn |-> fn, wd |-> e.wd,
                    stat |-> e.stat, pre |-> disk, w |-> cw.w,
                    headers |-> <<>>, values |-> <<>>]
        /\ ret' = IF cw.w THEN One(One(<<"csv.Writer", cw.fp>>)) ELSE <<>>
        /\ disk' = cw.disk
        /\ handles' = IF cw.w THEN handles \cup {Handle("NewCsvFile", cw.fp)}
                      ELSE handles
        /\ UNCHANGED <<pc, crashed, stdinVars, disk0, r, raw, wrote>>

\* CommaSep never closes the file of the writer it got from NewCsvFile.
DoCommaSep(when, names, tables) ==
    /\ when
    /\ pc = "idle"
    /\ \E fn \in names, t \in tables : \E e \in CreateEnvs(disk, fn) :
        LET cw == CommaSep(fn, t.headers, t.values, e, disk) IN
        /\ call' = [op |-> "CommaSep", fn |-> fn, wd |-> e.wd,
                    stat |-> e.stat, pre |-> disk, w |-> cw.w,
                    headers |-> t.headers, values |-> t.values]
        /\ ret' = <<>>
        /\ disk' = cw.disk
        /\ handles' = IF cw.w THEN handles \cup {Handle("NewCsvFile", cw.fp)}
                      ELSE handles
        /\ wrote' = IF cw.w
                    THEN [wrote EXCEPT ![cw.fp] =
                             [ok |-> TRUE, headers |-> t.headers,
                              values |-> t.values]]
                    ELSE wrote
        /\ UNCHANGED <<pc, crashed, stdinVars, disk0, r, raw>>

\* LoadLines up to its loop; also as the first statement of
\* LineInFileContains (search is then what it looks for).
LoadLinesOpen(op, searches) ==
    /\ First
    /\ pc = "idle"
    /\ \E fn \in FileNames, search \in searches : \E e \in ReadEnvs(disk, fn) :
        LET fp == ValidateFilepath(fn, e)
            ok == CanOpen(fp, e, disk)
        IN /\ call' = [op |-> op, fn |-> fn, fp |-> fp, opened |-> ok,
                       search |-> search]
           /\ IF ok
              THEN /\ handles' = handles \cup {Handle("LoadLines", fp)}
                   /\ pc' = "ll_scan"
                   /\ ret' = <<>>
              ELSE /\ handles' = handles
                   /\ pc' = "idle"
                   /\ ret' = IF op = "LoadLines" THEN One(<<>>)
                             ELSE <<<<>>, <<>>>>
           /\ UNCHANGED <<crashed, stdinVars, disk, disk0, r, raw, wrote>>

\* The loop of LoadLines, the deferred f.Close(), and for LineInFileContains
\* its own loop.
LoadLinesScan ==
    /\ pc = "ll_scan"
    /\ LET res == LoadLines(disk[call.fp].data)
           found == LineInFileContains(res, call.search)
       IN ret' = IF call.op = "LoadLines" THEN One(res)
                 ELSE <<found.i, found.lines>>
    /\ handles' = handles \ {Handle("LoadLines", call.fp)}
    /\ pc' = "idle"
    /\ UNCHANGED <<call, crashed, stdinVars, disk, disk0, r, raw, wrote>>

\* ReadFileBytes: os.ReadFile opens, reads and closes.
DoReadFileBytes ==
    /\ First
    /\ pc = "idle"
    /\ \E fn \in FileNames : \E e \in ReadEnvs(disk, fn) :
        LET fp == ValidateFilepath(fn, e)
            ok == CanOpen(fp, e, disk)
        IN /\ call' = [op |-> "ReadFileBytes", fn |-> fn, fp |-> fp,
                       opened |-> ok]
           /\ ret' = IF ok THEN One(One(disk[fp].data)) ELSE <<>>
           /\ UNCHANGED <<pc, crashed, stdinVars, fileVars>>

-----------------------------------------------------------------------------
(* Spec: the helpers that touch no file, called in any order.              *)

Init ==
    /\ InitProcess
    /\ stdin \in SeqsUpTo(ReadOutcomes, 1)
    /\ disk = EmptyDisk
    /\ disk0 = disk
    /\ wrote = NothingWritten

Next ==
    \/ DoExistsInList
    \/ DoAppendIfUnique
    \/ DoAppendIfUniqueAgain
    \/ DoConcatListNicely
    \/ DoTabFlex
    \/ DoJsonPretty
    \/ DoJsonFlat
    \/ DoXmlPretty
    \/ DoReadFromStdin

Spec == Init /\ [][Next]_vars

(* SpecLines: one call of ReadLinesFromStdin on every bounded input.       *)

InitLines ==
    /\ InitProcess
    /\ stdin \in SeqsUpTo(ReadOutcomes, MaxStream)
    /\ disk = EmptyDisk
    /\ disk0 = disk
    /\ wrote = NothingWritten

NextLines ==
    \/ StartReadLines
    \/ ReadLinesStep
    \/ ReadLinesReturn

SpecLines == InitLines /\ [][NextLines]_vars

\* The loop is straight-line code in one goroutine: a step that can be taken
\* is taken.
FairSpecLines == SpecLines /\ WF_vars(NextLines)

-----------------------------------------------------------------------------
(* Claims about ReadLinesFromStdin.                                        *)

\* The i-th read of an input: past its end every read is end-of-stream.
ReadAt(in, i) == IF i <= Len(in) THEN in[i] ELSE EOF

\* A read that yields a blank line (nothing left once the trailing CR/LF are
\* stripped) or end-of-stream.
Blank(a) ==
    \/ a.kind = "eof"
    \/ a.kind = "line" /\ TrimRight(a.data, {"\r", "\n"}) = <<>>

\* The read that ends the loop: a blank right after a blank, or a failed read.
StopsAt(in, i) ==
    \/ ReadAt(in, i).kind = "err"
    \/ i > 1 /\ Blank(ReadAt(in, i)) /\ Blank(ReadAt(in, i - 1))

RECURSIVE NonBlankLines(_)
NonBlankLines(s) ==
    IF s = <<>> THEN <<>>
    ELSE (IF Blank(Head(s)) \/ Head(s).kind = "err" THEN <<>>
          ELSE <<TrimRight(Head(s).data, {"\r", "\n"})>>)
         \o NonBlankLines(Tail(s))

\* C1: ReadLinesFromStdin stops at the first read that yields a blank line or
\* end-of-stream right after another blank line or end-of-stream (or at a
\* failed read, the function's other exit), and returns exactly the non-blank
\* lines read before that read, in input order; a blank followed directly by
\* a non-blank line neither stops the read nor appears in the result.
C1_StopsAtSecondBlank ==
    pc = "done" =>
        LET in == call.input
            n == Len(consumed)
        IN /\ n >= 1
           /\ \A i \in 1..n : consumed[i] = ReadAt(in, i)
           /\ StopsAt(in, n)
           /\ \A i \in 1..(n - 1) : ~StopsAt(in, i)
           /\ ret = NonBlankLines(SubSeq(consumed, 1, n - 1))
           /\ \A i \in 1..(n - 1) :
                 Blank(consumed[i]) => ~Blank(consumed[i + 1]) \/ i + 1 = n

Ln(l) == [kind |-> "line", data |-> l]

\* The input "x", "", "", "y" has been read and gave ["x"].
C1_Witness ==
    /\ pc = "done"
    /\ call.input = <<Ln(<<"x">>), Ln(<<>>), Ln(<<>>), Ln(<<"y">>)>>
    /\ ret = <<<<"x">>>>
    /\ Len(consumed) = 3

\* C9: ReadLinesFromStdin returns on every finite input, and reads at most
\* twice after the input is exhausted, whatever skip is at that point.
C9_Terminates ==
    /\ (pc = "rl_loop") ~> (pc = "done")
    /\ [](extraReads <= 2)

\* The input ended with skip unset and two further reads were made.
C9_Witness ==
    /\ pc = "done"
    /\ extraReads = 2
    /\ Len(call.input) = MaxStream
    /\ ~Blank(call.input[MaxStream])

-----------------------------------------------------------------------------
(* Claims about the list, formatting and table helpers.                    *)

\* C4: the only outcome that terminates the process is ReadFromStdin meeting
\* a read failure other than end-of-stream; every other failure, XmlPretty
\* on a non-string value included, returns a value.
C4_OnlyReadFromStdinCrashes ==
    crashed => call.op = "ReadFromStdin" /\ call.a.kind = "err"

RECURSIVE JoinWith(_, _)
JoinWith(ss, sep) ==
    IF ss = <<>> THEN <<>>
    ELSE IF Len(ss) = 1 THEN ss[1]
    ELSE ss[1] \o sep \o JoinWith(Tail(ss), sep)

NonEmpty(e) == e # <<>>

\* C5: ConcatListNicely returns exactly the non-empty entries, unchanged and
\* in input order, joined by ", " with no trailing separator.
C5_JoinsNonEmptyEntries ==
    (pc = "idle" /\ call.op = "ConcatListNicely") =>
        ret = One(JoinWith(SelectSeq(call.list, NonEmpty), <<",", " ">>))

\* The pieces of a text whose every piece is ended by term.
Terminated(text, term) ==
    LET parts == SplitOn(text, term) IN SubSeq(parts, 1, Len(parts) - 1)

EndsWith(text, term) == text # <<>> /\ text[Len(text)] = term

\* C6: TabFlex emits m+3 lines: the header line, a dash line, the m data
\* lines in input order, a closing dash line equal to the first; every line
\* has n cells, dash cell i has as many dashes as header i has characters,
\* and data cell i is the row's i-th value if it has one, else empty.
C6_TabFlexLayout ==
    (pc = "idle" /\ call.op = "TabFlex") =>
        LET headers == call.headers
            values == call.values
            n == Len(headers)
            m == Len(values)
            ls == Terminated(ret[1], "\n")
            cells == [k \in DOMAIN ls |-> Terminated(ls[k], "\t")]
        IN /\ EndsWith(ret[1], "\n")
           /\ Len(ls) = m + 3
           /\ \A k \in DOMAIN ls : Len(cells[k]) = n
           /\ cells[1] = headers
           /\ \A i \in 1..n : cells[2][i] = Repeat("-", Len(headers[i]))
           /\ ls[m + 3] = ls[2]
           /\ \A k \in 1..m : \A i \in 1..n :
                 cells[2 + k][i] =
                     IF i <= Len(values[k]) THEN values[k][i] ELSE <<>>

\* C7: AppendIfUnique returns the list unchanged when the value occurs in
\* it, and otherwise the list with the value added last; a chain of calls
\* that began with a duplicate-free list yields a duplicate-free list; a
\* second call with the same value changes nothing.
C7_AppendIfUnique ==
    (pc = "idle" /\ call.op = "AppendIfUnique") =>
        /\ call.val \in Range(call.sl) => ret = call.sl
        /\ call.val \notin Range(call.sl) =>
               ret = Append(call.sl, call.val)
        /\ call.nodup => NoDup(ret)
        /\ AppendIfUnique(ret, call.val) = ret

\* A chain of calls has grown a duplicate-free list beyond any fresh list,
\* and the last call found its value present.
C7_Witness ==
    /\ pc = "idle"
    /\ call.op = "AppendIfUnique"
    /\ call.nodup
    /\ Len(call.sl) > MaxList
    /\ call.val \in Range(call.sl)
    /\ ret = call.sl


-----------------------------------------------------------------------------
(* SpecRead: one call of a reading helper, on a file a.csv of any content   *)
(* or a file b.csv that does not exist.  The reading helpers change        *)
(* nothing on disk, so a later call finds what the first one found.        *)

Searches == {<<>>, <<"a">>}

FileChars == {"a", ",", "\"", "\n", "\r"}

InitRead ==
    /\ InitProcess
    /\ stdin = <<>>
    /\ \E data \in SeqsUpTo(FileChars, MaxFileLen) :
           disk = [EmptyDisk EXCEPT !["/wd/a.csv"] = File(data)]
    /\ disk0 = disk
    /\ wrote = NothingWritten

NextRead ==
    \/ ReadCsvFileOpen(First, FileNames)
    \/ ReadCsvFileRead
    \/ LoadLinesOpen("LoadLines", {<<>>})
    \/ LoadLinesOpen("LineInFileContains", Searches)
    \/ LoadLinesScan
    \/ DoReadFileBytes

SpecRead == InitRead /\ [][NextRead]_vars

(* SpecRoundTrip: one CommaSep of any table to a.csv, which may exist      *)
(* already, then one ReadCsvFile of it.                                    *)

CsvTables ==
    { DecodeTable(toks, nilEmpty) :
        toks \in SeqsUpTo(CsvChars \cup {FS, RS}, MaxCsvTokens),
        nilEmpty \in BOOLEAN }

RoundTripNames == {"a.csv", "./a.csv"}

InitRoundTrip ==
    /\ InitProcess
    /\ stdin = <<>>
    /\ disk \in { EmptyDisk,
                  [EmptyDisk EXCEPT !["/wd/a.csv"] = File(<<"a", "\n">>)] }
    /\ disk0 = disk
    /\ wrote = NothingWritten

NextRoundTrip ==
    \/ DoCommaSep(First, RoundTripNames, CsvTables)
    \/ ReadCsvFileOpen(call.op = "CommaSep", RoundTripNames)
    \/ ReadCsvFileRead

SpecRoundTrip == InitRoundTrip /\ [][NextRoundTrip]_vars

(* SpecCreate: NewCsvFile and CommaSep, called in any order on files that  *)
(* may exist already.                                                      *)

SomeTables ==
    { [headers |-> <<<<"a">>>>, values |-> <<>>],
      [headers |-> <<<<"a">>, <<",">>>>, values |-> <<<<<<>>, <<"a">>>>>>] }

OldFile == File(<<"a", "\n">>)

InitCreate ==
    /\ InitProcess
    /\ stdin = <<>>
    /\ disk \in [AbsPaths -> {Absent, OldFile}]
    /\ disk0 = disk
    /\ wrote = NothingWritten

NextCreate ==
    \/ DoNewCsvFile(TRUE, FileNames)
    \/ DoCommaSep(TRUE, FileNames, SomeTables)

SpecCreate == InitCreate /\ [][NextCreate]_vars

-----------------------------------------------------------------------------
(* Claims about the file helpers.                                          *)

Rows(t) == <<t.headers>> \o t.values

\* A record that Write turns into an empty line.
BlankRecord(rec) == rec = <<>> \/ rec = <<<<>>>>

HasCRLF(field) ==
    \E i \in 1..(Len(field) - 1) : field[i] = "\r" /\ field[i + 1] = "\n"

\* A table the CSV reader gives back as written: every record has as many
\* fields as the header, none is written as an empty line, and no value
\* holds a CR followed by LF.
ReadsBackAsWritten(t) ==
    \A k \in DOMAIN Rows(t) :
        LET rec == Rows(t)[k] IN
        /\ Len(rec) = Len(t.headers)
        /\ ~BlankRecord(rec)
        /\ \A i \in DOMAIN rec : ~HasCRLF(rec[i])

\* ReadCsvFile has returned from reading the file CommaSep created.
ReadBack ==
    /\ pc = "idle"
    /\ call.op = "ReadCsvFile"
    /\ call.opened
    /\ wrote[call.fp].ok

C3_NoOverwrite ==
    /\ (/\ pc = "idle"
        /\ call.op \in {"NewCsvFile", "CommaSep"}
        /\ call.pre[Abs(call.fn)].exists \/ call.stat = "other")
       => (~call.w /\ ret = <<>> /\ disk = call.pre)
    /\ \A p \in AbsPaths : disk0[p].exists => disk[p] = disk0[p]

\* CommaSep was refused on a file that exists since before the first call,
\* after an earlier call created the other file.
C3_Witness ==
    /\ pc = "idle"
    /\ call.op = "CommaSep"
    /\ disk0[Abs(call.fn)].exists
    /\ call.wd
    /\ call.stat = "ok"
    /\ ~call.w
    /\ disk[Abs(call.fn)] = OldFile
    /\ \E q \in AbsPaths : ~disk0[q].exists /\ disk[q].exists

\* What r.Read() returns call after call until end-of-stream, errors
\* included.
RECURSIVE ReadAll(_)
ReadAll(rd) ==
    LET res == Read(rd) IN
    IF res.err = "EOF" THEN <<>> ELSE <<res>> \o ReadAll(res.r)

FirstBad(all) ==
    IF \A i \in DOMAIN all : all[i].err = "nil" THEN Len(all) + 1
    ELSE CHOOSE i \in DOMAIN all :
            /\ all[i].err # "nil"
            /\ \A j \in 1..(i - 1) : all[j].err = "nil"

\* C8: ReadCsvFile returns exactly the records before the first malformed
\* record, in file order (all records when none is malformed), and nothing
\* for a path that is not valid.
C8_FailFast ==
    (pc = "idle" /\ call.op = "ReadCsvFile") =>
        /\ ~disk[Abs(call.fn)].exists => ret = <<>>
        /\ ~call.opened => ret = <<>>
        /\ call.opened =>
              LET all == ReadAll([buf |-> disk[call.fp].data, fpr |-> 0])
                  k == FirstBad(all)
              IN /\ Len(ret) = k - 1
                 /\ \A i \in 1..(k - 1) : ret[i] = all[i].record

\* A file with a good record, then a malformed one, then a good one was
\* read, and only the first record came back.
C8_Witness ==
    /\ pc = "idle"
    /\ call.op = "ReadCsvFile"
    /\ call.opened
    /\ LET all == ReadAll([buf |-> disk[call.fp].data, fpr |-> 0]) IN
       /\ Len(all) = 3
       /\ all[1].err = "nil" /\ all[2].err # "nil" /\ all[3].err = "nil"
       /\ ret = <<all[1].record>>

\* C10: no reading helper leaves a file open: whenever no helper runs, the
\* only open handles are those NewCsvFile handed out.
C10_ReadersCloseFiles ==
    pc = "idle" => \A h \in handles : h.by = "NewCsvFile"

=============================================================================
